---- MODULE Spec2Model ----
(***************************************************************************)
(* A state-machine model of the notebook 04-Train.ipynb: the cells are run *)
(* top to bottom; an uncaught Python exception stops the run.              *)
(*                                                                         *)
(* Real numbers are exact rationals <<numerator, denominator>> in lowest   *)
(* terms; the two IEEE special results of a tensor division are the        *)
(* strings "nan" and "inf".  Python's 0-based index k is k+1 here, except  *)
(* for the dataset indices stored in visit logs, which stay 0-based.       *)
(***************************************************************************)
EXTENDS Integers, Sequences, FiniteSets, TLC

VARIABLES
    pc,            \* the cell (or loop) the run is at
    error,         \* the uncaught exception that stopped the run, or "none"
    target_list,   \* cell comic-fence: one class label per training sample
    uniques,       \* np.unique(target_list, return_counts=True)
    fraction,      \* uniques[1][0] / uniques[1][1]
    weight_list,   \* one weight per training sample
    sampler,       \* the WeightedRandomSampler
    train_loader,  \* DataLoader of the training set
    val_loader,    \* DataLoader of the validation set
    val_len,       \* len(val_dataset)
    modelState,    \* parameters and optimizer state of TumorSegmentation
    epoch,         \* trainer.current_epoch
    draws,         \* the index order the running loader pass got from its sampler
    batch_idx,     \* index of the next batch of the running loop
    visited,       \* dataset indices the running validation pass has fetched
    lastStep,      \* the step the run attempted last
    preds,         \* evaluation cell: collected sigmoid outputs
    labels,        \* evaluation cell: collected ground-truth masks
    dice_score,    \* DiceScore()(preds, labels)
    ct,            \* the scan volume after cropping
    scan,          \* inference cell: resized slices
    segmentation,  \* inference cell: thresholded masks
    label,         \* inference cell: number of references appended to label
    i,             \* inference cell: loop index
    bound          \* the names the run has assigned so far

vars == <<pc, error, target_list, uniques, fraction, weight_list, sampler,
          train_loader, val_loader, val_len, modelState, epoch, draws,
          batch_idx, visited, lastStep, preds, labels, dice_score, ct, scan,
          segmentation, label, i, bound>>

samplingVars == <<target_list, uniques, fraction, weight_list, sampler>>
loaderVars == <<train_loader, val_loader, val_len>>
fitVars == <<modelState, epoch, lastStep>>
passVars == <<draws, batch_idx, visited>>
evalVars == <<preds, labels, dice_score>>
inferVars == <<ct, scan, segmentation, label, i>>

(***************************************************************************)
(* Bounds of the model.                                                    *)
(***************************************************************************)
MaxTrain == 3      \* longest training set
MaxVal == 3        \* longest validation set
MaxEpochs == 2     \* stands for max_epochs
BatchSize == 2     \* stands for batch_size
MaxSlices == 2     \* most slices left after the crop

(***************************************************************************)
(* Program constants.                                                      *)
(***************************************************************************)
TargetRes == 256           \* cv2.resize(slice, (256, 256))
CropStart == 30            \* ct[:,:,30:]
num_sanity_val_steps == 2  \* pl.Trainer default, not overridden

None == "none"

\* Placeholders of the names not assigned yet (see bound).
NoUniques == <<<<>>, <<>>>>

NoSampler == [weights |-> <<>>, num_samples |-> 0, replacement |-> FALSE]

NoLoader == [sampler |-> None, batch_size |-> 0]

NoScore == [kind |-> None, val |-> <<0, 1>>]

NoVolume == [h |-> 0, w |-> 0, depth |-> 0]

NoShape == <<0, 0>>

\* The record kept of a step: its kind and, for a step that computes the
\* loss, the shapes of the network's output and of the mask.
StepOf(kind, pred_shape, mask_shape) ==
    [kind |-> kind, pred_shape |-> pred_shape, mask_shape |-> mask_shape]

(***************************************************************************)
(* Exact rational arithmetic.                                              *)
(***************************************************************************)
RECURSIVE GCD(_, _)
GCD(a, b) == IF b = 0 THEN a ELSE GCD(b, a % b)

Norm(n, d) == LET g == GCD(n, d) IN <<n \div g, d \div g>>

RAdd(a, b) == Norm(a[1] * b[2] + b[1] * a[2], a[2] * b[2])

RMul(a, b) == Norm(a[1] * b[1], a[2] * b[2])

RLe(a, b) == a[1] * b[2] <= b[1] * a[2]

RLt(a, b) == a[1] * b[2] < b[1] * a[2]

Zero == <<0, 1>>

One == <<1, 1>>

RECURSIVE RSum(_)
RSum(s) == IF s = <<>> THEN Zero ELSE RAdd(Head(s), RSum(Tail(s)))

(***************************************************************************)
(* Finite sequences.                                                       *)
(***************************************************************************)
SeqsUpTo(S, n) == UNION {[1..k -> S] : k \in 0..n}

SeqsOf(S, n) == [1..n -> S]

RECURSIVE Flatten(_)
Flatten(ss) == IF ss = <<>> THEN <<>> ELSE Head(ss) \o Flatten(Tail(ss))

Count(s, v) == Cardinality({k \in DOMAIN s : s[k] = v})

(***************************************************************************)
(* Oversampling cells.                                                     *)
(***************************************************************************)
\* np.unique(x, return_counts=True): the sorted distinct values and, for
\* each, how often it occurs.
NpUnique(x) ==
    LET vals == (IF Count(x, 0) > 0 THEN <<0>> ELSE <<>>)
                \o (IF Count(x, 1) > 0 THEN <<1>> ELSE <<>>)
    IN <<vals, [k \in DOMAIN vals |-> Count(x, vals[k])]>>

\* numpy int64 / int64: true division (both counts are positive).
TrueDiv(a, b) == Norm(a, b)

\* uniques[1][0] / uniques[1][1]: indexing past the end of the counts raises
\* IndexError.
FractionRaises(u) == Len(u[2]) < 2

\* (Fault variant: the quotient taken the other way round.)
FractionOfMutInverted(u) == TrueDiv(u[2][2], u[2][1])

FractionOf(u) == TrueDiv(u[2][1], u[2][2])

\* The loop of cell planned-stanford.
WeightListOf(targets, frac) ==
    [k \in DOMAIN targets |-> IF targets[k] = 0 THEN One ELSE frac]

\* WeightedRandomSampler(weights, num_samples), replacement=True by default.
NewSampler(weights) ==
    [weights |-> weights, num_samples |-> Len(weights), replacement |-> TRUE]

\* iter(sampler): torch.multinomial draws num_samples indices (0-based), each
\* with probability proportional to its weight, so never one of weight 0.
SamplerDraws(s) ==
    SeqsOf({k - 1 : k \in {j \in DOMAIN s.weights : s.weights[j] # Zero}},
           s.num_samples)

\* The run after cell comic-fence has collected the labels of a training
\* set of any content; the validation set holds at least one sample (the
\* trainer refuses a validation loader without batches).
Init ==
    /\ pc = "uniques"
    /\ error = None
    /\ target_list \in SeqsUpTo({0, 1}, MaxTrain)
    /\ val_len \in 1..MaxVal
    /\ bound = {"target_list"}
    /\ uniques = NoUniques
    /\ fraction = Zero
    /\ weight_list = <<>>
    /\ sampler = NoSampler
    /\ train_loader = NoLoader
    /\ val_loader = NoLoader
    /\ modelState = [params |-> 0, opt_steps |-> 0]
    /\ epoch = 0
    /\ draws = <<>>
    /\ batch_idx = 0
    /\ visited = <<>>
    /\ lastStep = StepOf(None, NoShape, NoShape)
    /\ preds = <<>>
    /\ labels = <<>>
    /\ dice_score = NoScore
    /\ ct = NoVolume
    /\ scan = <<>>
    /\ segmentation = <<>>
    /\ label = 0
    /\ i = 0

\* Cell thirty-connectivity.
Uniques ==
    /\ pc = "uniques"
    /\ uniques' = NpUnique(target_list)
    /\ bound' = bound \cup {"uniques"}
    /\ pc' = "fraction"
    /\ UNCHANGED <<error, target_list, fraction, weight_list, sampler>>
    /\ UNCHANGED <<loaderVars, fitVars, passVars, evalVars, inferVars>>

\* Cell bridal-advantage.
Fraction ==
    /\ pc = "fraction"
    /\ IF FractionRaises(uniques)
       THEN /\ pc' = "error"
            /\ error' = "IndexError"
            /\ UNCHANGED <<fraction, bound>>
       ELSE /\ pc' = "weights"
            /\ fraction' = FractionOf(uniques)
            /\ bound' = bound \cup {"fraction"}
            /\ error' = error
    /\ UNCHANGED <<target_list, uniques, weight_list, sampler>>
    /\ UNCHANGED <<loaderVars, fitVars, passVars, evalVars, inferVars>>

\* Cell planned-stanford.
WeightList ==
    /\ pc = "weights"
    /\ weight_list' = WeightListOf(target_list, fraction)
    /\ bound' = bound \cup {"weight_list"}
    /\ pc' = "sampler"
    /\ UNCHANGED <<error, target_list, uniques, fraction, sampler>>
    /\ UNCHANGED <<loaderVars, fitVars, passVars, evalVars, inferVars>>

\* Cell backed-acoustic.
Sampler ==
    /\ pc = "sampler"
    /\ sampler' = NewSampler(weight_list)
    /\ bound' = bound \cup {"sampler"}
    /\ pc' = "loaders"
    /\ UNCHANGED <<error, target_list, uniques, fraction, weight_list>>
    /\ UNCHANGED <<loaderVars, fitVars, passVars, evalVars, inferVars>>

(***************************************************************************)
(* Data loaders.                                                           *)
(***************************************************************************)
\* DataLoader(train_dataset, batch_size=batch_size, sampler=sampler)
TrainLoader == [sampler |-> "weighted", batch_size |-> BatchSize]

\* DataLoader(val_dataset, batch_size=batch_size, shuffle=False): without a
\* sampler and without shuffling the loader uses a SequentialSampler.
\* (Fault variant: the training sampler handed to the validation loader.)
ValLoaderMutSampled == [sampler |-> "weighted", batch_size |-> BatchSize]

ValLoader == [sampler |-> "sequential", batch_size |-> BatchSize]

\* The index orders one pass over a loader of an n-sample dataset can take.
LoaderOrders(loader, n) ==
    IF loader.sampler = "sequential"
    THEN {[k \in 1..n |-> k - 1]}
    ELSE SamplerDraws(sampler)

Min(a, b) == IF a < b THEN a ELSE b

\* len(loader): drop_last is False, the last batch may be short.
NumBatches(loader, order) ==
    (Len(order) + loader.batch_size - 1) \div loader.batch_size

\* The dataset indices of batch k (0-based) of a pass.
BatchOf(loader, order, k) ==
    SubSeq(order, k * loader.batch_size + 1,
           Min((k + 1) * loader.batch_size, Len(order)))

\* Cell final-assets.
Loaders ==
    /\ pc = "loaders"
    /\ train_loader' = TrainLoader
    /\ val_loader' = ValLoader
    /\ bound' = bound \cup {"train_loader", "val_loader"}
    /\ pc' = "verify"
    /\ UNCHANGED <<error, samplingVars, val_len, fitVars, passVars>>
    /\ UNCHANGED <<evalVars, inferVars>>

\* Cell unauthorized-wesley: next(iter(train_loader)) starts a pass (the
\* sampler draws its indices) and takes the first batch.
VerifySampler ==
    /\ pc = "verify"
    /\ \E order \in LoaderOrders(train_loader, Len(target_list)) :
          draws' = order
    /\ bound' = bound \cup {"verify_sampler"}
    /\ pc' = "fit"
    /\ UNCHANGED <<error, samplingVars, loaderVars, fitVars>>
    /\ UNCHANGED <<batch_idx, visited, evalVars, inferVars>>

(***************************************************************************)
(* TumorSegmentation and trainer.fit.                                      *)
(***************************************************************************)
\* Spatial shapes a batch's tensors can have.
Shapes == {<<TargetRes, TargetRes>>, <<TargetRes \div 2, TargetRes \div 2>>}

\* torch.nn.BCEWithLogitsLoss raises ValueError("Target size ... must be the
\* same as input size ...") unless both tensors have the same shape: this is
\* the run's shape-mismatch error.
ShapeMismatchError == "ValueError"

LossRaises(pred_shape, mask_shape) == pred_shape # mask_shape

\* One Adam update: backward and optimizer.step(), which automatic
\* optimization runs once on the loss a training_step returns.
OptimizerStep(ms) ==
    [params |-> ms.params + 1, opt_steps |-> ms.opt_steps + 1]

\* training_step on one batch, and the update that follows its return.
\* (Fault variant: the update made whether or not the loss raises.)
TrainingStepMutEager(ms, pred_shape, mask_shape) ==
    [error |-> IF LossRaises(pred_shape, mask_shape)
               THEN ShapeMismatchError ELSE None,
     state |-> OptimizerStep(ms)]

TrainingStepOf(ms, pred_shape, mask_shape) ==
    IF LossRaises(pred_shape, mask_shape)
    THEN [error |-> ShapeMismatchError, state |-> ms]
    ELSE [error |-> None, state |-> OptimizerStep(ms)]

\* validation_step on one batch: the trainer runs it in eval mode under
\* torch.no_grad() and takes no optimizer step.
\* (Fault variant: validation that steps the optimizer.)
ValidationStepMutTrains(ms, pred_shape, mask_shape) ==
    TrainingStepOf(ms, pred_shape, mask_shape)

ValidationStepOf(ms, pred_shape, mask_shape) ==
    IF LossRaises(pred_shape, mask_shape)
    THEN [error |-> ShapeMismatchError, state |-> ms]
    ELSE [error |-> None, state |-> ms]

\* Number of batches the sanity check runs before the first epoch.
SanityBatches == Min(num_sanity_val_steps, NumBatches(val_loader, draws))

\* Cell handy-testing: trainer.fit starts with the validation sanity check.
FitStart ==
    /\ pc = "fit"
    /\ \E order \in LoaderOrders(val_loader, val_len) : draws' = order
    /\ batch_idx' = 0
    /\ visited' = <<>>
    /\ pc' = "sanity"
    /\ UNCHANGED <<error, samplingVars, loaderVars, fitVars>>
    /\ UNCHANGED <<evalVars, inferVars, bound>>

\* The common part of a validation step in the sanity check and in an epoch.
RunValidationStep ==
    /\ \E pred_shape \in Shapes, mask_shape \in Shapes :
          LET r == ValidationStepOf(modelState, pred_shape, mask_shape)
          IN /\ lastStep' = StepOf("validation_step", pred_shape, mask_shape)
             /\ modelState' = r.state
             /\ IF r.error # None
                THEN /\ pc' = "error"
                     /\ error' = r.error
                     /\ UNCHANGED batch_idx
                ELSE /\ batch_idx' = batch_idx + 1
                     /\ UNCHANGED <<pc, error>>
    /\ visited' = visited \o BatchOf(val_loader, draws, batch_idx)
    /\ UNCHANGED <<samplingVars, loaderVars, epoch, draws>>
    /\ UNCHANGED <<evalVars, inferVars, bound>>

SanityStep ==
    /\ pc = "sanity"
    /\ batch_idx < SanityBatches
    /\ RunValidationStep

\* A pass of the training loader starts: the sampler draws its indices.
StartTrainPass ==
    /\ \E order \in LoaderOrders(train_loader, Len(target_list)) :
          draws' = order
    /\ batch_idx' = 0
    /\ visited' = <<>>
    /\ pc' = "train"

SanityEnd ==
    /\ pc = "sanity"
    /\ batch_idx = SanityBatches
    /\ StartTrainPass
    /\ UNCHANGED <<error, samplingVars, loaderVars, fitVars>>
    /\ UNCHANGED <<evalVars, inferVars, bound>>

TrainingStep ==
    /\ pc = "train"
    /\ batch_idx < NumBatches(train_loader, draws)
    /\ \E pred_shape \in Shapes, mask_shape \in Shapes :
          LET r == TrainingStepOf(modelState, pred_shape, mask_shape)
          IN /\ lastStep' = StepOf("training_step", pred_shape, mask_shape)
             /\ modelState' = r.state
             /\ IF r.error # None
                THEN /\ pc' = "error"
                     /\ error' = r.error
                     /\ UNCHANGED batch_idx
                ELSE /\ batch_idx' = batch_idx + 1
                     /\ UNCHANGED <<pc, error>>
    /\ UNCHANGED <<samplingVars, loaderVars, epoch, draws, visited>>
    /\ UNCHANGED <<evalVars, inferVars, bound>>

\* After the last training batch of an epoch the validation pass starts.
TrainEnd ==
    /\ pc = "train"
    /\ batch_idx = NumBatches(train_loader, draws)
    /\ \E order \in LoaderOrders(val_loader, val_len) : draws' = order
    /\ batch_idx' = 0
    /\ visited' = <<>>
    /\ pc' = "val"
    /\ UNCHANGED <<error, samplingVars, loaderVars, fitVars>>
    /\ UNCHANGED <<evalVars, inferVars, bound>>

ValidationStep ==
    /\ pc = "val"
    /\ batch_idx < NumBatches(val_loader, draws)
    /\ RunValidationStep

\* The epoch ends; after max_epochs epochs trainer.fit returns.
ValEnd ==
    /\ pc = "val"
    /\ batch_idx = NumBatches(val_loader, draws)
    /\ epoch' = epoch + 1
    /\ IF epoch + 1 < MaxEpochs
       THEN StartTrainPass
       ELSE /\ pc' = "load"
            /\ draws' = <<>>
            /\ batch_idx' = 0
            /\ visited' = <<>>
    /\ UNCHANGED <<error, samplingVars, loaderVars, modelState, lastStep>>
    /\ UNCHANGED <<evalVars, inferVars, bound>>

(***************************************************************************)
(* Evaluation cells.                                                       *)
(***************************************************************************)
\* Pixel positions of one (scaled-down) slice.
Pixels == {1}

\* Logits the network can put out for a pixel: float32 sigmoid saturates to
\* exactly 0.0 and exactly 1.0 at the two outer ones.
Logits == {-200, 0, 200}

\* What load_from_checkpoint restores: the state the fit ended with (the
\* checkpoint named is the one of the last epoch).
LoadFromCheckpoint(ms) == ms

\* A forward pass in model.eval() under torch.no_grad().
ForwardNoGrad(ms) == ms

\* torch.sigmoid on float32, for the logits above.
\* (Fault variant: the logits passed on as they are.)
SigmoidMutIdentity(x) == <<x, 1>>

Sigmoid(x) == IF x = 0 THEN <<1, 2>> ELSE IF x > 0 THEN One ELSE Zero

\* tensor / tensor on floats: 0/0 is nan and x/0 is inf, without an error.
TorchDiv(a, b) ==
    IF b[1] = 0
    THEN [kind |-> IF a[1] = 0 THEN "nan" ELSE "inf", val |-> Zero]
    ELSE [kind |-> "num", val |-> Norm(a[1] * b[2], a[2] * b[1])]

\* DiceScore.forward on the two flattened tensors.
\* (Fault variant: mask.sum() left out of the denominator.)
DiceForwardMutDenum(pred, mask) ==
    LET counter == RSum([k \in DOMAIN pred |-> RMul(pred[k], mask[k])])
        denum == RSum(pred)
    IN TorchDiv(RMul(<<2, 1>>, counter), denum)

DiceForward(pred, mask) ==
    LET counter == RSum([k \in DOMAIN pred |-> RMul(pred[k], mask[k])])
        denum == RAdd(RSum(pred), RSum(mask))
    IN TorchDiv(RMul(<<2, 1>>, counter), denum)

\* .float() of an integer mask.
ToFloat(t) == [k \in DOMAIN t |-> <<t[k], 1>>]

\* The prediction the evaluation loop collects for one slice.
EvalPred(logits) == [k \in DOMAIN logits |-> Sigmoid(logits[k])]

\* The arguments the dice cell hands to DiceScore.
DicePredArg == Flatten(preds)

DiceMaskArg == ToFloat(Flatten(labels))

\* Iterating val_dataset fetches index 0, 1, ... and ends at the first index
\* the dataset does not hold.
ValDatasetHolds(idx) == idx < val_len

\* Cell initial-strain.
LoadCheckpoint ==
    /\ pc = "load"
    /\ modelState' = LoadFromCheckpoint(modelState)
    /\ bound' = bound \cup {"model", "device"}
    /\ pc' = "eval_init"
    /\ UNCHANGED <<error, samplingVars, loaderVars, epoch, lastStep>>
    /\ UNCHANGED <<passVars, evalVars, inferVars>>

\* Cell imported-neighborhood, its first two lines.
EvalInit ==
    /\ pc = "eval_init"
    /\ preds' = <<>>
    /\ labels' = <<>>
    /\ visited' = <<>>
    /\ bound' = bound \cup {"preds", "labels"}
    /\ pc' = "eval"
    /\ UNCHANGED <<error, samplingVars, loaderVars, fitVars>>
    /\ UNCHANGED <<draws, batch_idx, dice_score, inferVars>>

\* Cell imported-neighborhood, one iteration of its loop.
EvalStep ==
    /\ pc = "eval"
    /\ ValDatasetHolds(Len(visited))
    /\ lastStep' = StepOf("eval_forward", NoShape, NoShape)
    /\ modelState' = ForwardNoGrad(modelState)
    /\ \E logits \in [Pixels -> Logits], mask \in [Pixels -> {0, 1}] :
          /\ preds' = Append(preds, EvalPred(logits))
          /\ labels' = Append(labels, mask)
    /\ visited' = Append(visited, Len(visited))
    /\ UNCHANGED <<pc, error, samplingVars, loaderVars, epoch>>
    /\ UNCHANGED <<draws, batch_idx, dice_score, inferVars, bound>>

\* Cell imported-neighborhood, the loop ends; np.array keeps the values.
EvalEnd ==
    /\ pc = "eval"
    /\ ~ValDatasetHolds(Len(visited))
    /\ pc' = "dice"
    /\ UNCHANGED <<error, samplingVars, loaderVars, fitVars>>
    /\ UNCHANGED <<passVars, evalVars, inferVars, bound>>

\* Cell breathing-oregon.
Dice ==
    /\ pc = "dice"
    /\ dice_score' = DiceForward(DicePredArg, DiceMaskArg)
    /\ bound' = bound \cup {"dice_score"}
    /\ pc' = "volume"
    /\ UNCHANGED <<error, samplingVars, loaderVars, fitVars>>
    /\ UNCHANGED <<passVars, preds, labels, inferVars>>

(***************************************************************************)
(* Visualization cells.                                                    *)
(***************************************************************************)
\* THRESHOLD = 0.5
THRESHOLD == <<1, 2>>

\* Shapes (rows, columns) the slices of a scan volume can have.
InputShapes ==
    {<<2 * TargetRes, 2 * TargetRes>>, <<TargetRes \div 2, TargetRes>>}

\* Depths the loaded volume can have before the crop.
RawDepths == {CropStart - 1} \cup {CropStart + k : k \in 0..MaxSlices}

\* ct[:,:,30:] keeps the slices from index 30 on.
Crop(depth) == IF depth > CropStart THEN depth - CropStart ELSE 0

\* ct[:,:,k]
SliceOf(volume, k) == [src |-> k, shape |-> <<volume.h, volume.w>>]

\* cv2.resize(slice, (256, 256))
\* (Fault variant: the slice kept at its own resolution.)
ResizeMutKeep(slice) == slice

Resize(slice) == [src |-> slice.src, shape |-> <<TargetRes, TargetRes>>]

\* model(slice)[0][0] > THRESHOLD, for a slice whose pixels all get the
\* logit x: the mask has the shape of the network's input.
Threshold(slice, x) ==
    [src |-> slice.src, shape |-> slice.shape, on |-> RLt(THRESHOLD, <<x, 1>>)]

\* Cells central-check and prime-regard.
LoadVolume ==
    /\ pc = "volume"
    /\ \E shape \in InputShapes, depth \in RawDepths :
          ct' = [h |-> shape[1], w |-> shape[2], depth |-> Crop(depth)]
    /\ bound' = bound \cup {"THRESHOLD", "ct"}
    /\ pc' = "infer_init"
    /\ UNCHANGED <<error, samplingVars, loaderVars, fitVars>>
    /\ UNCHANGED <<passVars, evalVars, scan, segmentation, label, i>>

\* Cell unnecessary-accreditation, its first three lines.
InferInit ==
    /\ pc = "infer_init"
    /\ segmentation' = <<>>
    /\ label' = 0
    /\ scan' = <<>>
    /\ i' = 0
    /\ bound' = bound \cup {"segmentation", "label", "scan"}
    /\ pc' = "infer"
    /\ UNCHANGED <<error, samplingVars, loaderVars, fitVars>>
    /\ UNCHANGED <<passVars, evalVars, ct>>

\* Cell unnecessary-accreditation, one iteration of its loop.
InferStep ==
    /\ pc = "infer"
    /\ i < ct.depth
    /\ lastStep' = StepOf("infer_forward", NoShape, NoShape)
    /\ modelState' = ForwardNoGrad(modelState)
    /\ LET slice == Resize(SliceOf(ct, i))
       IN /\ scan' = Append(scan, slice)
          /\ \E x \in Logits :
                segmentation' = Append(segmentation, Threshold(slice, x))
    /\ label' = label + 1
    /\ i' = i + 1
    /\ UNCHANGED <<pc, error, samplingVars, loaderVars, epoch>>
    /\ UNCHANGED <<passVars, evalVars, ct, bound>>

\* Cell unnecessary-accreditation, the loop ends.
InferEnd ==
    /\ pc = "infer"
    /\ i = ct.depth
    /\ pc' = "done"
    /\ UNCHANGED <<error, samplingVars, loaderVars, fitVars>>
    /\ UNCHANGED <<passVars, evalVars, inferVars, bound>>

\* The oversampling cells and the loaders.
NextOversampling ==
    \/ Uniques
    \/ Fraction
    \/ WeightList
    \/ Sampler
    \/ Loaders
    \/ VerifySampler

\* Training, evaluation and visualization.
NextTraining ==
    \/ FitStart
    \/ SanityStep
    \/ SanityEnd
    \/ TrainingStep
    \/ TrainEnd
    \/ ValidationStep
    \/ ValEnd
    \/ LoadCheckpoint
    \/ EvalInit
    \/ EvalStep
    \/ EvalEnd
    \/ Dice
    \/ LoadVolume
    \/ InferInit
    \/ InferStep
    \/ InferEnd

Next == NextOversampling \/ NextTraining

\* The whole notebook.
Spec == Init /\ [][Next]_vars

\* The notebook up to the cell that calls trainer.fit.
SpecOversampling == Init /\ [][NextOversampling]_vars

\* Training sets whose runs are followed through training, evaluation and
\* visualization.
TrainSets == {<<0, 0, 1>>, <<1, 0>>}

\* The run at the cell that calls trainer.fit, for these training sets: what
\* the cells before it have computed.
FitEntry ==
    /\ pc = "fit"
    /\ error = None
    /\ target_list \in TrainSets
    /\ val_len \in 1..MaxVal
    /\ uniques = NpUnique(target_list)
    /\ fraction = FractionOf(uniques)
    /\ weight_list = WeightListOf(target_list, fraction)
    /\ sampler = NewSampler(weight_list)
    /\ train_loader = TrainLoader
    /\ val_loader = ValLoader
    /\ draws \in SamplerDraws(sampler)
    /\ bound = {"target_list", "uniques", "fraction", "weight_list", "sampler",
                "train_loader", "val_loader", "verify_sampler"}
    /\ modelState = [params |-> 0, opt_steps |-> 0]
    /\ epoch = 0
    /\ batch_idx = 0
    /\ visited = <<>>
    /\ lastStep = StepOf(None, NoShape, NoShape)
    /\ preds = <<>>
    /\ labels = <<>>
    /\ dice_score = NoScore
    /\ ct = NoVolume
    /\ scan = <<>>
    /\ segmentation = <<>>
    /\ label = 0
    /\ i = 0

\* The notebook from the cell that calls trainer.fit on.
SpecTraining == FitEntry /\ [][NextTraining]_vars

(***************************************************************************)
(* Properties.                                                             *)
(***************************************************************************)
N0 == Count(target_list, 0)

N1 == Count(target_list, 1)

\* The weight computation (cells thirty-connectivity to planned-stanford)
\* has ended, with a weight list or with an exception.
WeightsEnded == pc \notin {"uniques", "fraction", "weights"}

\* The run reaches the cell that calls trainer.fit only in the states that
\* SpecTraining starts from.
FitEntryReached == (pc = "fit" /\ target_list \in TrainSets) => FitEntry

\* <<0, 1, ..., n-1>>
UpTo(n) == [k \in 1..n |-> k - 1]

Binary(t) == \A k \in DOMAIN t : t[k] \in {Zero, One}

Ones(t) == {k \in DOMAIN t : t[k] = One}

\* C1: for every training label sequence with n1 > 0 positive and n0 >= 0
\* negative labels (n0 = 0 included) the weight computation yields a weight
\* list as long as the dataset, with 1 at every label-0 index and n0/n1 at
\* every label-1 index, in the sample order.
C1_WeightListForEveryPositiveSet ==
    (N1 > 0 /\ WeightsEnded) =>
        /\ "weight_list" \in bound
        /\ Len(weight_list) = Len(target_list)
        /\ \A k \in DOMAIN weight_list :
              IF target_list[k] = 0
              THEN weight_list[k] = One
              ELSE weight_list[k][1] * N1 = N0 * weight_list[k][2]

\* C2: with no positive label (n1 = 0, any n0 >= 0) the weight computation
\* ends in a DegenerateDatasetError, and produces no ratio, no weight list
\* and no sampler.
C2_DegenerateDatasetError ==
    (N1 = 0 /\ WeightsEnded) =>
        /\ pc = "error"
        /\ error = "DegenerateDatasetError"
        /\ bound \cap {"fraction", "weight_list", "sampler"} = {}

\* C3: for binary tensors pred and mask of equal size with
\* sum(pred) + sum(mask) > 0, DiceScore.forward returns
\* 2*sum(pred*mask) / (sum(pred) + sum(mask)); the value lies in [0, 1], is
\* exactly 1 when pred is identical to mask and exactly 0 when they are
\* disjoint.
C3_DiceOnBinaryTensors ==
    LET pred == DicePredArg
        mask == DiceMaskArg
        inter == Cardinality(Ones(pred) \cap Ones(mask))
        total == Cardinality(Ones(pred)) + Cardinality(Ones(mask))
    IN ("dice_score" \in bound /\ Binary(pred) /\ Binary(mask) /\ total > 0) =>
          /\ Len(pred) = Len(mask)
          /\ dice_score.kind = "num"
          /\ dice_score.val[1] * total = 2 * inter * dice_score.val[2]
          /\ RLe(Zero, dice_score.val) /\ RLe(dice_score.val, One)
          /\ (pred = mask => dice_score.val = One)
          /\ (Ones(pred) \cap Ones(mask) = {} => dice_score.val = Zero)

\* C3's case: a score of 2/3 for binary tensors that overlap in part.
C3_Witness ==
    /\ "dice_score" \in bound
    /\ Binary(DicePredArg)
    /\ Len(DicePredArg) = 3
    /\ Ones(DicePredArg) \cap Ones(DiceMaskArg) # {}
    /\ DicePredArg # DiceMaskArg
    /\ dice_score.val = <<2, 3>>

\* C4: when the scorer's denominator is zero (all predictions and all masks
\* zero, for a validation set of any size) the reported score is the fixed
\* policy value, a number, and never the undefined 0/0 (NaN).
C4_ZeroDenominatorPolicy ==
    ("dice_score" \in bound
        /\ RAdd(RSum(DicePredArg), RSum(DiceMaskArg)) = Zero) =>
        dice_score.kind = "num"

\* C5: the weighted sampler is attached to the training loader only; every
\* validation pass, through val_loader during fitting and through the
\* evaluation loop over val_dataset, visits each validation sample exactly
\* once, in increasing index order.
C5_ValidationVisitsEachOnceInOrder ==
    /\ "val_loader" \in bound =>
          /\ val_loader.sampler = "sequential"
          /\ train_loader.sampler = "weighted"
    /\ pc \in {"sanity", "val", "eval", "dice"} =>
          visited = UpTo(Len(visited))
    /\ (pc = "val" /\ batch_idx = NumBatches(val_loader, draws)) =>
          visited = UpTo(val_len)
    /\ pc = "dice" => visited = UpTo(val_len)

\* C5's case: a validation pass of the second epoch has ended after two
\* batches.
C5_Witness ==
    /\ pc = "val"
    /\ epoch = 1
    /\ batch_idx = 2
    /\ batch_idx = NumBatches(val_loader, draws)
    /\ Len(visited) = 3

\* C6: each training step (one that returns its loss) causes exactly one
\* optimizer update of the model state for its batch; validation steps,
\* evaluation forward passes and full-volume inference forward passes leave
\* the model state (parameters and optimizer state) unchanged.
C6_OnlyTrainingStepsUpdate ==
    [][/\ (pc = "train" /\ batch_idx' = batch_idx + 1) =>
              /\ modelState'.opt_steps = modelState.opt_steps + 1
              /\ modelState'.params # modelState.params
       /\ pc \in {"sanity", "val", "eval", "infer"} =>
              modelState' = modelState]_vars

\* C6's case: a run that trained, validated, evaluated and inferred.
C6_Witness ==
    /\ pc = "done"
    /\ modelState.opt_steps = 4
    /\ val_len > 0
    /\ Len(preds) = val_len
    /\ Len(scan) > 0

\* C7: a training or validation step on a batch whose network output and
\* mask differ in spatial shape ends in the shape-mismatch error before any
\* optimizer update: the model state after the failed step is the one
\* before it.
C7_ShapeMismatchFailsFast ==
    [][(/\ pc \in {"sanity", "train", "val"}
        /\ lastStep'.kind \in {"training_step", "validation_step"}
        /\ lastStep'.pred_shape # lastStep'.mask_shape) =>
            /\ pc' = "error"
            /\ error' = ShapeMismatchError
            /\ modelState' = modelState]_vars

\* C7's case: a training step failed on mismatched shapes after earlier
\* updates.
C7_Witness ==
    /\ pc = "error"
    /\ error = ShapeMismatchError
    /\ lastStep.kind = "training_step"
    /\ lastStep.pred_shape # lastStep.mask_shape
    /\ modelState.opt_steps > 0

\* C8: for a scan volume of S >= 0 slices of any resolution the inference
\* loop ends with exactly S resized slices and S thresholded masks; after
\* slice i both sequences have length i+1, entry i of each comes from slice
\* i, and every resized slice is 256 x 256.
C8_InferenceSequences ==
    "scan" \in bound =>
        /\ i <= ct.depth
        /\ Len(scan) = i
        /\ Len(segmentation) = i
        /\ \A k \in 1..i :
              /\ scan[k].src = k - 1
              /\ segmentation[k].src = k - 1
              /\ scan[k].shape = <<256, 256>>
        /\ pc = "done" => i = ct.depth

\* C8's case: the loop has ended on a volume of two slices that were not
\* 256 x 256.
C8_Witness ==
    /\ pc = "done"
    /\ ct.depth = 2
    /\ <<ct.h, ct.w>> # <<256, 256>>
    /\ Len(scan) = 2

\* C9: for every training label sequence with n0 > 0 and n1 > 0 the weights
\* of all label-1 samples sum to the same as the weights of all label-0
\* samples (n1 * (n0/n1) = n0 * 1), and the sampler draws exactly
\* dataset-length indices per epoch.
C9_ClassesBalanced ==
    LET w == sampler.weights
        pos == RSum([k \in DOMAIN w |-> IF target_list[k] = 1 THEN w[k] ELSE Zero])
        neg == RSum([k \in DOMAIN w |-> IF target_list[k] = 0 THEN w[k] ELSE Zero])
    IN /\ ("sampler" \in bound /\ N0 > 0 /\ N1 > 0) =>
             /\ Len(w) = Len(target_list)
             /\ pos = neg
             /\ neg = <<N0, 1>>
             /\ sampler.num_samples = Len(target_list)
       /\ pc \in {"fit", "train"} => Len(draws) = Len(target_list)

\* C9's case: the draw of one pass for a training set with two negatives
\* and one positive.
C9_Witness ==
    /\ pc = "fit"
    /\ N0 = 2
    /\ N1 = 1
    /\ fraction = <<2, 1>>
    /\ Len(draws) = 3

\* C10, as stated: every element of the prediction tensor handed to the
\* scorer is exactly 0 or 1.
C10_HardPredictions ==
    pc = "dice" \/ "dice_score" \in bound => Binary(DicePredArg)

\* C10, amended: every element of the prediction tensor handed to the
\* scorer is a sigmoid output, a probability in [0, 1]; it is not
\* thresholded.
C10_ProbabilityPredictions ==
    pc = "dice" \/ "dice_score" \in bound =>
        \A k \in DOMAIN DicePredArg :
            RLe(Zero, DicePredArg[k]) /\ RLe(DicePredArg[k], One)

\* C10's case: a score was computed on a prediction of 1/2.
C10_Witness ==
    /\ "dice_score" \in bound
    /\ \E k \in DOMAIN DicePredArg : DicePredArg[k] = <<1, 2>>

====
